---- MODULE Spec2Model ----
(***************************************************************************)
(* Model of HW-PiCollector.                                                *)
(*                                                                         *)
(*  - the edge sampler  (src/src/collect_homewizard_data.py)               *)
(*  - the central sync  (src/src/sync_homewizard.py, py_to_cassandra.py,   *)
(*                       utils.py)                                         *)
(*                                                                         *)
(* Time on the edge is counted in ticks of 500 ms from a model origin that *)
(* is a midnight; minutes and days are scaled down (SecondsPerMinute,      *)
(* MinutesPerDay) so that flush windows and day boundaries are reached.    *)
(***************************************************************************)
EXTENDS Integers, Sequences, FiniteSets, TLC

VARIABLES
    \* ---- edge sampler (collect_homewizard_data.py) ----
    epc,                  \* position of main(): start, sample, check, reset,
                          \* advance, shutdown, final, done, crashed
    HAS_PV,               \* module constant HAS_PV of the running site
    next_sample_time,     \* tick of the next sample
    first_sample_to_save, \* tick of the next flush deadline
    p1_samples,           \* buffer of P1 readings (ticks read)
    pv_samples,           \* buffer of PV readings
    work_queue,           \* snapshots submitted to the executor, not yet run
    running,              \* snapshot the executor's single thread is saving
    files,                \* day files: <<day, kind>> -> sequence of lines
    stop_cause,           \* why the loop was left: none, interrupt, exception
    last_read,            \* outcome of the two reads of the latest tick
    pv_read_start,        \* history: time after the tick at which its PV
                          \* read was started, in read timeouts
    captured,             \* history: <<kind, tick>> returned by a sensor read
    nfinal,               \* history: final flushes run by this process
    restarts,             \* processes started so far
    \* ---- central sync (sync_homewizard.py) ----
    cpu_count,            \* mp.cpu_count() of the central host
    tbl_access,           \* access table: home_id -> has_pv
    hostnames,            \* parse_routing_table(): homes with an address
    rpi,                  \* home_id -> day files of the site (path -> rows)
    tbl_last_ts,          \* last_ts table: home_id -> timestamp or NoTs
    store,                \* home_id -> [raw_p1, raw_pv, power] tables
    pass,                 \* the running pass: its arguments and `now`
    chunks,               \* pool.map tasks not yet taken by a worker
    worker,               \* pool process -> homes left in its current task
    spc,                  \* home_id -> position of process_home
    dates,                \* home_id -> days of sync_dates still to do
    rng,                  \* home_id -> range and mode chosen by process_home
    sess,                 \* home_id -> remote session: ssh, sftp open
    net,                  \* home_id -> what connecting to the site gives
    \* ---- one day of sync_dates on given frames (lines 286-303) ----
    dpc,                  \* position: derive, load, end
    day_has_pv,           \* has_pv of the site
    p1_df,                \* frame returned by sync_files for the P1 file
    pv_df,                \* frame returned by sync_files for the PV file
    power_df,             \* final_df
    loaded,               \* what batch_insert_query did with final_df
    \* ---- passes of sync_homewizard that run at the same time ----
    runs                  \* invocation -> its arguments, the watermark it
                          \* read at its start, and its position

evars == <<epc, HAS_PV, next_sample_time, first_sample_to_save, p1_samples,
           pv_samples, work_queue, running, files, stop_cause, last_read,
           pv_read_start, captured, nfinal, restarts>>

svars == <<cpu_count, tbl_access, hostnames, rpi, tbl_last_ts, store, pass,
           chunks, worker, spc, dates, rng, sess, net>>

dvars == <<dpc, day_has_pv, p1_df, pv_df, power_df, loaded>>

ovars == <<runs>>

vars == <<evars, svars, dvars, ovars>>

-----------------------------------------------------------------------------
(* Bounds of the model and scaled program constants.                       *)

TicksPerSecond == 2       \* timedelta(seconds=0.5)
SecondsPerMinute == 2     \* scaled minute
MinutesPerDay == 2        \* scaled day
MaxTick == 10             \* the loop is followed up to this tick
MaxRestarts == 1          \* process restarts followed

FlushTicks == SecondsPerMinute * TicksPerSecond   \* timedelta(minutes=1)
TicksPerDay == MinutesPerDay * FlushTicks

Ticks == 0..MaxTick
EdgeDays == 0..(MaxTick \div TicksPerDay)
Kinds == {"p1", "pv"}

SetMin(S) == CHOOSE x \in S : \A y \in S : x <= y
SetMax(S) == CHOOSE x \in S : \A y \in S : x >= y

SecOf(t) == t \div TicksPerSecond          \* resample('s') bins by floor
DayOfTick(t) == t \div TicksPerDay         \* timestamp.dt.date

-----------------------------------------------------------------------------
(* Day files.                                                              *)

HeaderLine == [hdr |-> TRUE, sec |-> -1, ticks |-> {}]

NoSnapshot == [p1 |-> {-1}, pv |-> {-1}]

\* a resampler that writes a row only for the seconds that have a reading
Resample_nofill(T) ==
    LET secs == {SecOf(t) : t \in T}
        nth[i \in 1..Cardinality(secs)] ==
            IF i = 1 THEN SetMin(secs)
            ELSE SetMin({x \in secs : x > nth[i - 1]})
    IN  [i \in 1..Cardinality(secs) |->
            [hdr |-> FALSE, sec |-> nth[i],
             ticks |-> {t \in T : SecOf(t) = nth[i]}]]

\* save_to_csv lines 149-155: one row per whole second from the earliest to
\* the latest reading of the group; a row holds the readings of its second.
Resample(T) ==
    LET lo == SecOf(SetMin(T))
        hi == SecOf(SetMax(T))
    IN  [i \in 1..(hi - lo + 1) |->
            [hdr |-> FALSE, sec |-> lo + i - 1,
             ticks |-> {t \in T : SecOf(t) = lo + i - 1}]]

\* a writer that asks for the header on every append
need_header_always(file) == TRUE

\* line 163
need_header(file) == file = <<>>

\* save_to_csv: append the resampled group, header only for a new file.
save_to_csv(file, T) ==
    file \o (IF need_header(file) THEN <<HeaderLine>> ELSE <<>>) \o Resample(T)

\* save_data: per calendar day, P1 groups, then PV groups when HAS_PV.
save_data(fs, p1, pv, haspv) ==
    [key \in DOMAIN fs |->
        LET d == key[1]
            src == IF key[2] = "p1" THEN p1
                   ELSE IF haspv THEN pv ELSE {}
            grp == {t \in src : DayOfTick(t) = d}
        IN  IF grp = {} THEN fs[key] ELSE save_to_csv(fs[key], grp)]

-----------------------------------------------------------------------------
(* Sensor reads (get_sensor_data).                                          *)

\* ok: 2xx with a JSON object; err: timeout, connection error or (P1) non-2xx,
\* caught and logged; non2xx: PV answer whose Response is falsy (line 101);
\* malformed: a body that is not a JSON object, the TypeError/ValueError of
\* lines 89-90 / 103-104 is no RequestException and leaves the function.
P1Outcomes == {"ok", "err", "malformed"}
PvOutcomes(haspv) == IF haspv THEN {"ok", "err", "non2xx", "malformed"}
                     ELSE {"none"}

ReadFailed(o) == o \in {"err", "non2xx", "malformed"}

ReadTimeout == 1          \* requests.get(..., timeout=0.1), the unit of time
NotStarted == -1          \* no PV read at the tick

\* time the P1 read of lines 86-97 takes, in read timeouts: a read that runs
\* into its timeout (a RequestException, "err") returns after ReadTimeout,
\* any other read within the first one
read_elapsed(o) == IF o = "err" THEN {0, ReadTimeout} ELSE {0}

-----------------------------------------------------------------------------
(* The sampler process.                                                     *)

EdgeInit ==
    /\ epc = "start"
    /\ HAS_PV \in BOOLEAN
    /\ next_sample_time = 0
    /\ first_sample_to_save = 0
    /\ p1_samples = {}
    /\ pv_samples = {}
    /\ work_queue = <<>>
    /\ running = NoSnapshot
    /\ files = [key \in EdgeDays \X Kinds |-> <<>>]
    /\ stop_cause = "none"
    /\ last_read = <<"none", "none">>
    /\ pv_read_start = NotStarted
    /\ captured = {}
    /\ nfinal = 0
    /\ restarts = 0

\* main lines 213-219: the anchor is the next whole second; replace() raises
\* ValueError when now.second + 1 = 60, outside the try block.
StartAnchor(nowSec) == (nowSec + 1) * TicksPerSecond

Start ==
    /\ epc = "start"
    /\ \E nowSec \in 0..SecOf(MaxTick) :
        /\ nowSec * TicksPerSecond >= next_sample_time
        /\ IF nowSec % SecondsPerMinute = SecondsPerMinute - 1
           THEN /\ epc' = "crashed"
                /\ UNCHANGED <<next_sample_time, first_sample_to_save>>
           ELSE /\ StartAnchor(nowSec) <= MaxTick
                /\ next_sample_time' = StartAnchor(nowSec)
                /\ first_sample_to_save' = StartAnchor(nowSec) + FlushTicks
                /\ epc' = "sample"
    /\ UNCHANGED <<HAS_PV, p1_samples, pv_samples, work_queue, running, files,
                   stop_cause, last_read, captured, nfinal, restarts>>
    /\ UNCHANGED <<pv_read_start, svars, dvars, ovars>>

\* main lines 224-232: get_sensor_data, concat of P1, `if pv_data:` and concat
\* of PV. The truth value of a DataFrame raises ValueError (line 227).
Sample ==
    /\ epc = "sample"
    /\ next_sample_time <= MaxTick
    /\ \E o1 \in P1Outcomes, o2 \in PvOutcomes(HAS_PV) :
      \E took \in read_elapsed(o1) :
        LET t == next_sample_time
            \* the PV read is only reached when the P1 read did not raise
            r2 == IF o1 = "malformed" THEN "none" ELSE o2
            returned == o1 /= "malformed" /\ r2 /= "malformed"
            raised == ~returned \/ r2 = "ok"
        IN  /\ last_read' = <<o1, r2>>
            \* line 100 runs when the try block of lines 86-97 is left
            /\ pv_read_start' = IF r2 = "none" THEN NotStarted ELSE took
            /\ captured' = captured
                   \cup (IF returned /\ o1 = "ok" THEN {<<"p1", t>>} ELSE {})
                   \cup (IF returned /\ r2 = "ok" THEN {<<"pv", t>>} ELSE {})
            /\ p1_samples' = IF returned /\ o1 = "ok"
                             THEN p1_samples \cup {t} ELSE p1_samples
            /\ pv_samples' = pv_samples
            /\ IF raised
               THEN epc' = "shutdown" /\ stop_cause' = "exception"
               ELSE epc' = "check" /\ UNCHANGED stop_cause
    /\ UNCHANGED <<HAS_PV, next_sample_time, first_sample_to_save, work_queue,
                   running, files, nfinal, restarts>>
    /\ UNCHANGED <<svars, dvars, ovars>>

\* main lines 234-236: hand the buffers to the executor when the deadline is
\* reached.
Check ==
    /\ epc = "check"
    /\ IF next_sample_time >= first_sample_to_save
       THEN /\ work_queue' = Append(work_queue,
                                    [p1 |-> p1_samples, pv |-> pv_samples])
            /\ epc' = "reset"
       ELSE /\ epc' = "advance"
            /\ UNCHANGED work_queue
    /\ UNCHANGED <<HAS_PV, next_sample_time, first_sample_to_save, p1_samples,
                   pv_samples, running, files, stop_cause, last_read, captured,
                   nfinal, restarts>>
    /\ UNCHANGED <<pv_read_start, svars, dvars, ovars>>

\* main lines 238-241
Reset ==
    /\ epc = "reset"
    /\ p1_samples' = {}
    /\ pv_samples' = {}
    /\ first_sample_to_save' = first_sample_to_save + FlushTicks
    /\ epc' = "advance"
    /\ UNCHANGED <<HAS_PV, next_sample_time, work_queue, running, files,
                   stop_cause, last_read, captured, nfinal, restarts>>
    /\ UNCHANGED <<pv_read_start, svars, dvars, ovars>>

\* main lines 243-245
Advance ==
    /\ epc = "advance"
    /\ next_sample_time < MaxTick
    /\ next_sample_time' = next_sample_time + 1
    /\ epc' = "sample"
    /\ UNCHANGED <<HAS_PV, first_sample_to_save, p1_samples, pv_samples,
                   work_queue, running, files, stop_cause, last_read, captured,
                   nfinal, restarts>>
    /\ UNCHANGED <<pv_read_start, svars, dvars, ovars>>

\* main line 246: KeyboardInterrupt anywhere inside the try block.
Interrupt ==
    /\ epc \in {"sample", "check", "reset", "advance"}
    /\ epc' = "shutdown"
    /\ stop_cause' = "interrupt"
    /\ UNCHANGED <<HAS_PV, next_sample_time, first_sample_to_save, p1_samples,
                   pv_samples, work_queue, running, files, last_read, captured,
                   nfinal, restarts>>
    /\ UNCHANGED <<pv_read_start, svars, dvars, ovars>>

\* an executor whose thread takes a snapshot while it is saving another
worker_free_always(r) == TRUE

\* ThreadPoolExecutor(max_workers=1), line 71: the one thread is free
worker_free(r) == r = NoSnapshot

\* The executor's single worker thread (line 71) takes the oldest snapshot.
\* The thread lives as long as the process.
FlushStart ==
    /\ epc \notin {"done", "crashed"}
    /\ worker_free(running)
    /\ work_queue /= <<>>
    /\ running' = Head(work_queue)
    /\ work_queue' = Tail(work_queue)
    /\ UNCHANGED <<epc, HAS_PV, next_sample_time, first_sample_to_save,
                   p1_samples, pv_samples, files, stop_cause, last_read,
                   captured, nfinal, restarts>>
    /\ UNCHANGED <<pv_read_start, svars, dvars, ovars>>

\* save_data in the worker thread returns.
FlushDone ==
    /\ running /= NoSnapshot
    /\ files' = save_data(files, running.p1, running.pv, HAS_PV)
    /\ running' = NoSnapshot
    /\ UNCHANGED <<epc, HAS_PV, next_sample_time, first_sample_to_save,
                   p1_samples, pv_samples, work_queue, stop_cause, last_read,
                   captured, nfinal, restarts>>
    /\ UNCHANGED <<pv_read_start, svars, dvars, ovars>>

\* save_data in the worker thread raises (OSError of makedirs/open/write):
\* the exception stays in the Future nobody reads (line 236).
FlushFail ==
    /\ running /= NoSnapshot
    /\ running' = NoSnapshot
    /\ UNCHANGED <<epc, HAS_PV, next_sample_time, first_sample_to_save,
                   p1_samples, pv_samples, work_queue, files, stop_cause,
                   last_read, captured, nfinal, restarts>>
    /\ UNCHANGED <<pv_read_start, svars, dvars, ovars>>

\* main line 252: executor.shutdown(wait=True) returns once every submitted
\* snapshot has been run.
shutdown_nowait == TRUE

shutdown_returns == work_queue = <<>> /\ running = NoSnapshot

Shutdown ==
    /\ epc = "shutdown"
    /\ shutdown_returns
    /\ epc' = "final"
    /\ UNCHANGED <<HAS_PV, next_sample_time, first_sample_to_save, p1_samples,
                   pv_samples, work_queue, running, files, stop_cause,
                   last_read, captured, nfinal, restarts>>
    /\ UNCHANGED <<pv_read_start, svars, dvars, ovars>>

\* main line 254: the last save_data, in the main thread.
FinalFlush ==
    /\ epc = "final"
    /\ files' = save_data(files, p1_samples, pv_samples, HAS_PV)
    /\ nfinal' = nfinal + 1
    /\ epc' = "done"
    /\ UNCHANGED <<HAS_PV, next_sample_time, first_sample_to_save, p1_samples,
                   pv_samples, work_queue, running, stop_cause, last_read,
                   captured>>
    /\ UNCHANGED restarts
    /\ UNCHANGED <<pv_read_start, svars, dvars, ovars>>

\* main line 254 raises (OSError while writing): the process ends with the
\* exception, after the one final flush it attempted.
FinalFlushFail ==
    /\ epc = "final"
    /\ nfinal' = nfinal + 1
    /\ epc' = "crashed"
    /\ UNCHANGED <<HAS_PV, next_sample_time, first_sample_to_save, p1_samples,
                   pv_samples, work_queue, running, files, stop_cause,
                   last_read, captured, restarts>>
    /\ UNCHANGED <<pv_read_start, svars, dvars, ovars>>

\* The process is started again (module level and main lines 210-211): the
\* day files stay, everything in memory is new.
Restart ==
    /\ epc \in {"done", "crashed"}
    /\ restarts < MaxRestarts
    /\ restarts' = restarts + 1
    /\ epc' = "start"
    /\ p1_samples' = {}
    /\ pv_samples' = {}
    /\ work_queue' = <<>>
    /\ running' = NoSnapshot
    /\ stop_cause' = "none"
    /\ last_read' = <<"none", "none">>
    /\ pv_read_start' = NotStarted
    /\ captured' = {}
    /\ nfinal' = 0
    /\ UNCHANGED <<HAS_PV, next_sample_time, first_sample_to_save, files>>
    /\ UNCHANGED <<svars, dvars, ovars>>

EdgeNext ==
    \/ Start \/ Sample \/ Check \/ Reset \/ Advance \/ Interrupt
    \/ FlushStart \/ FlushDone \/ FlushFail
    \/ Shutdown \/ FinalFlush \/ FinalFlushFail \/ Restart

\* the central side at rest
SyncOff ==
    /\ cpu_count = 1
    /\ tbl_access = <<>>
    /\ hostnames = {}
    /\ rpi = <<>>
    /\ tbl_last_ts = <<>>
    /\ store = <<>>
    /\ pass = <<>>
    /\ chunks = <<>>
    /\ worker = <<>>
    /\ spc = <<>>
    /\ dates = <<>>
    /\ rng = <<>>
    /\ sess = <<>>
    /\ net = <<>>

\* the derivation on given frames at rest
DeriveOff ==
    /\ dpc = "off"
    /\ day_has_pv = FALSE
    /\ p1_df = <<>>
    /\ pv_df = <<>>
    /\ power_df = <<>>
    /\ loaded = <<>>

\* no invocation of the sync besides the one of the pass
OverlapOff == runs = <<>>

SamplerInit == EdgeInit /\ SyncOff /\ DeriveOff /\ OverlapOff

SpecSampler == SamplerInit /\ [][EdgeNext]_vars

-----------------------------------------------------------------------------
(* Central sync: time, calendar and paths.                                  *)
(*                                                                         *)
(* Central timestamps count sub-second steps (SubSec per second) from the   *)
(* midnight that starts model day 0; a day has SecondsPerSyncDay seconds.   *)
(* Model day 0 is the first of SeptDays days at the end of September, the   *)
(* following days are in October.  The year is the same on both sides of a  *)
(* path and is left out.                                                    *)

SubSec == 2               \* resolution below one second
SecondsPerSyncDay == 2    \* scaled day of the central side
SeptDays == 2             \* model days that fall in September
MaxSyncDay == 5           \* last model day
FROM_FIRST_TS == 4        \* config.py: look-back in days
OLDEST_TS == -1000        \* config.py: "1970-01-01", far before day 0
INSERTS_PER_BATCH == 2    \* config.py: 43200, scaled

SubPerDay == SecondsPerSyncDay * SubSec
SyncDays == 0..MaxSyncDay
MaxTs == (MaxSyncDay + 1) * SubPerDay - 1

NoTs == -1                \* None / no row

DayOf(ts) == ts \div SubPerDay                 \* date.year, .month, .day
Midnight(d) == d * SubPerDay                   \* pd.Timestamp("y-m-d")
floor_s(ts) == ts - (ts % SubSec)              \* Timestamp.floor('s')
Timedelta_days(n) == n * SubPerDay             \* pd.Timedelta(days=n)

MonthOf(d) == IF d < SeptDays THEN 9 ELSE 10
DomOf(d) == IF d < SeptDays THEN 30 - SeptDays + 1 + d ELSE d - SeptDays + 1

Pad2(n) == <<n \div 10, n % 10>>                             \* f"{n:02}"
Plain(n) == IF n < 10 THEN <<n>> ELSE <<n \div 10, n % 10>>  \* f"{n}"

\* file name of both sides: sync_files line 196, save_data lines 187/201
FileName(d, home_id, data_type) ==
    <<Pad2(MonthOf(d)), Pad2(DomOf(d)), home_id, data_type>>

\* save_data lines 181/195: {DATA_DIR}/{year}/{month:02}/<file>_<type>.csv
EdgePath(d, home_id, data_type) ==
    <<Pad2(MonthOf(d)), FileName(d, home_id, data_type)>>

\* sync_files lines 199/201: {DATA_DIR}/{year}/{month}/{filename}
SyncPath(d, home_id, data_type) ==
    <<Plain(MonthOf(d)), FileName(d, home_id, data_type)>>

\* sync_files line 206: f"{year}-{month}-{day}"
DayString(d) == <<Plain(MonthOf(d)), Plain(DomOf(d))>>

\* a range that lists its days from the latest to the earliest
date_range_descending(start_date, end_date) ==
    IF start_date > end_date THEN <<>>
    ELSE [i \in 1..((end_date - start_date) \div SubPerDay + 1) |->
            start_date
            + ((end_date - start_date) \div SubPerDay + 1 - i) * SubPerDay]

\* pd.date_range(start_date, end_date): daily steps from start, up to end
date_range(start_date, end_date) ==
    IF start_date > end_date THEN <<>>
    ELSE [i \in 1..((end_date - start_date) \div SubPerDay + 1) |->
            start_date + (i - 1) * SubPerDay]

-----------------------------------------------------------------------------
(* Central store (py_to_cassandra.py).                                       *)

\* get_right_format lines 136-150 on the kinds of the values of one row.
\* vbound: the local name v has been assigned by the loop of line 143; the
\* branches of lines 147 and 149 read v, not val. TRUE: the list is returned;
\* FALSE: UnboundLocalError.
RECURSIVE get_right_format_from(_, _, _)
get_right_format_from(values, i, vbound) ==
    IF i > Len(values) THEN TRUE
    ELSE IF values[i] = "str"
         THEN get_right_format_from(values, i + 1, vbound)
    ELSE IF values[i] = "list"
         THEN get_right_format_from(values, i + 1, TRUE)
    ELSE IF vbound
         THEN get_right_format_from(values, i + 1, vbound)
    ELSE FALSE

get_right_format(values) == get_right_format_from(values, 1, FALSE)

\* kinds of df.iloc[i].values: a raw row is the csv line (timestamp string,
\* measurements, date, home_id) plus day; a power row is home_id, day,
\* timestamp, p_cons, p_prod, p_tot.
RawValues == <<"str", "num", "str", "str", "str">>
PowerValues == <<"str", "str", "str", "num", "num", "num">>

\* a row written again under the same (home_id, day, timestamp) replaces
Upsert(tbl, row) ==
    {r \in tbl : ~(r.home_id = row.home_id /\ r.day = row.day
                   /\ r.ts = row.ts)} \cup {row}

RECURSIVE Execute(_, _)
Execute(tbl, queries) ==
    IF queries = <<>> THEN tbl
    ELSE Execute(Upsert(tbl, Head(queries)), Tail(queries))

\* batch_insert_query lines 225-240. Result: the table, whether the call
\* returned (ok) and the batches executed, each with its
\* statements in order.
RECURSIVE batch_insert_from(_, _, _, _, _, _)
batch_insert_from(tbl, df, values, i, queries, batches) ==
    IF i > Len(df)
    THEN IF queries /= <<>>
         THEN [tbl |-> Execute(tbl, queries), ok |-> TRUE,
               batches |-> Append(batches, queries)]
         ELSE [tbl |-> tbl, ok |-> TRUE, batches |-> batches]
    ELSE IF ~get_right_format(values)
    THEN [tbl |-> tbl, ok |-> FALSE, batches |-> batches]
    ELSE IF i % INSERTS_PER_BATCH = 0
    THEN batch_insert_from(Execute(tbl, Append(queries, df[i])), df, values,
                           i + 1, <<>>, Append(batches, Append(queries, df[i])))
    ELSE batch_insert_from(tbl, df, values, i + 1, Append(queries, df[i]),
                           batches)

batch_insert_query(tbl, df, values) ==
    batch_insert_from(tbl, df, values, 1, <<>>, <<>>)

-----------------------------------------------------------------------------
(* One day of one site (sync_files, sync_dates lines 283-303).              *)

\* A csv file is a sequence of [ts, w]: w is <<>> for an empty field and
\* <<v>> for the value v of active_power_w. read_csv numbers the rows from 0.
read_csv(file) == [i \in 1..Len(file) |->
                      [idx |-> i - 1, ts |-> file[i].ts, w |-> file[i].w]]

\* sync_files lines 193-219 for one file of the site. raised: an exception
\* left the function. A missing file is caught at line 213 and the
\* `return df` of line 219 then raises UnboundLocalError.
sync_files(site_files, tbl, home_id, date, data_type, classic_sync) ==
    LET d == DayOf(date)
        path == SyncPath(d, home_id, data_type)
    IN  IF path \notin DOMAIN site_files
        THEN [raised |-> TRUE, missing |-> TRUE, df |-> <<>>, tbl |-> tbl]
        ELSE LET read == read_csv(site_files[path])
                 df == IF classic_sync
                       THEN SelectSeq(read, LAMBDA r : r.ts >= date)
                       ELSE read
                 rows == [i \in 1..Len(df) |->
                             [home_id |-> home_id, day |-> DayString(d),
                              ts |-> df[i].ts, w |-> df[i].w]]
                 ins == batch_insert_query(tbl, rows, RawValues)
             IN  [raised |-> ~ins.ok, missing |-> FALSE, df |-> df,
                  tbl |-> ins.tbl]

Neg(w) == IF w = <<>> THEN <<>> ELSE <<0 - w[1]>>          \* * -1
Plus(a, b) == IF a = <<>> \/ b = <<>> THEN <<>> ELSE <<a[1] + b[1]>>

\* the row of a frame with index label idx; <<>> when there is none
AtIndex(df, idx) ==
    IF \E j \in 1..Len(df) : df[j].idx = idx
    THEN (df[CHOOSE j \in 1..Len(df) : df[j].idx = idx]).w
    ELSE <<>>

\* sync_dates lines 287-300: the power frame of one day. The assignment of
\* line 299 aligns the production series on the index labels of the frames.
power_frame(home_id, d, p1, has_pv, pv) ==
    [i \in 1..Len(p1) |->
        LET p_cons == p1[i].w
            p_prod == IF has_pv THEN Neg(AtIndex(pv, p1[i].idx)) ELSE <<0>>
        IN  [home_id |-> home_id, day |-> DayString(d), ts |-> p1[i].ts,
             p_cons |-> p_cons, p_prod |-> p_prod,
             p_tot |-> IF has_pv THEN Plus(p_cons, p_prod) ELSE p_cons]]

\* a loader that empties the tables of the site when a day raises
sync_day_clears(site_files, st, home_id, has_pv, date, classic_sync) ==
    [raised |-> TRUE, missing |-> "none",
     st |-> [raw_p1 |-> {}, raw_pv |-> {}, power |-> {}]]

\* one iteration of the loop of sync_dates (lines 283-303) on the three
\* tables of the store. raised: the iteration left sync_dates by an exception.
sync_day(site_files, st, home_id, has_pv, date, classic_sync) ==
    LET p1 == sync_files(site_files, st.raw_p1, home_id, date, "p1",
                         classic_sync)
    IN  IF p1.raised
        THEN [raised |-> TRUE, missing |-> IF p1.missing THEN "p1" ELSE "none",
              st |-> [st EXCEPT !.raw_p1 = p1.tbl]]
        ELSE
        LET pv == IF has_pv
                  THEN sync_files(site_files, st.raw_pv, home_id, date, "pv",
                                  classic_sync)
                  ELSE [raised |-> FALSE, missing |-> FALSE, df |-> <<>>,
                        tbl |-> st.raw_pv]
        IN  IF pv.raised
            THEN [raised |-> TRUE,
                  missing |-> IF pv.missing THEN "pv" ELSE "none",
                  st |-> [st EXCEPT !.raw_p1 = p1.tbl, !.raw_pv = pv.tbl]]
            ELSE
            LET final_df == power_frame(home_id, DayOf(date), p1.df, has_pv,
                                        pv.df)
                ins == batch_insert_query(st.power, final_df, PowerValues)
            IN  [raised |-> ~ins.ok, missing |-> "none",
                 st |-> [raw_p1 |-> p1.tbl, raw_pv |-> pv.tbl,
                         power |-> ins.tbl]]

\* a check_last_ts that writes without comparing
check_last_ts_always(tbl, home_id, new_ts, last_ts) ==
    [tbl EXCEPT ![home_id] = floor_s(new_ts)]

\* a check_last_ts that writes new_ts as given
check_last_ts_unfloored(tbl, home_id, new_ts, last_ts) ==
    IF last_ts /= NoTs /\ new_ts <= last_ts THEN tbl
    ELSE [tbl EXCEPT ![home_id] = new_ts]

\* check_last_ts lines 167-179 on the last_ts table (home_id -> timestamp,
\* NoTs when the site has no row).
check_last_ts(tbl, home_id, new_ts, last_ts) ==
    IF last_ts /= NoTs
    THEN IF new_ts > last_ts
         THEN [tbl EXCEPT ![home_id] = floor_s(new_ts)]
         ELSE tbl
    ELSE [tbl EXCEPT ![home_id] = floor_s(new_ts)]

-----------------------------------------------------------------------------
(* The sync pass: sync_homewizard, sync_data, the pool, process_home.       *)

NHomes == 2               \* sites in the access table
MaxHomes == 5             \* sites in the access table of a large pass
MaxCpu == 2               \* mp.cpu_count() of the central host
MaxPasses == 2            \* passes run one after the other

Homes(n) == 1..n

\* seconds of the day held by the day files of the first site, per layout
LayoutNames == {"full", "hole", "partial", "partial_hole"}

P1Seconds(layout, d) ==
    IF layout \in {"hole", "partial_hole"} /\ d = SeptDays + 1 THEN {}
    ELSE IF layout \in {"partial", "partial_hole"} THEN {0}
    ELSE 0..(SecondsPerSyncDay - 1)

\* the production meter starts one second after the primary meter
PvSeconds(layout, d) == P1Seconds(layout, d) \ {0}

\* the csv rows the edge wrote for the seconds `secs` of day d
FileRows(d, secs) ==
    LET n == Cardinality(secs)
        nth(i) == CHOOSE x \in secs : Cardinality({y \in secs : y < x}) = i - 1
    IN  [i \in 1..n |-> [ts |-> Midnight(d) + nth(i) * SubSec,
                         w |-> <<nth(i) + 1>>]]

SiteFiles(home_id, layout, has_pv) ==
    LET keys == {<<d, "p1">> : d \in {x \in SyncDays : P1Seconds(layout, x) /= {}}}
                \cup (IF has_pv
                      THEN {<<d, "pv">> : d \in {x \in SyncDays :
                                                 PvSeconds(layout, x) /= {}}}
                      ELSE {})
        paths == {EdgePath(k[1], home_id, k[2]) : k \in keys}
        keyOf(path) == CHOOSE k \in keys : EdgePath(k[1], home_id, k[2]) = path
    IN  [path \in paths |->
            FileRows(keyOf(path)[1],
                     IF keyOf(path)[2] = "p1"
                     THEN P1Seconds(layout, keyOf(path)[1])
                     ELSE PvSeconds(layout, keyOf(path)[1]))]

\* the rows a store holds when everything of the site below the watermark w
\* has been reconciled
RawBelow(site_files, home_id, data_type, w) ==
    UNION {
        {[home_id |-> home_id, day |-> DayString(d),
          ts |-> site_files[EdgePath(d, home_id, data_type)][i].ts,
          w |-> site_files[EdgePath(d, home_id, data_type)][i].w] :
            i \in {j \in 1..Len(site_files[EdgePath(d, home_id, data_type)]) :
                     site_files[EdgePath(d, home_id, data_type)][j].ts < w}} :
        d \in {x \in SyncDays :
                 EdgePath(x, home_id, data_type) \in DOMAIN site_files}}

PowerBelow(site_files, home_id, has_pv, w) ==
    UNION {
        LET p1 == read_csv(site_files[EdgePath(d, home_id, "p1")])
            pv == IF EdgePath(d, home_id, "pv") \in DOMAIN site_files
                  THEN read_csv(site_files[EdgePath(d, home_id, "pv")])
                  ELSE <<>>
            frame == power_frame(home_id, d, p1, has_pv, pv)
        IN  {frame[i] : i \in {j \in 1..Len(frame) : frame[j].ts < w}} :
        d \in {x \in SyncDays :
                 EdgePath(x, home_id, "p1") \in DOMAIN site_files}}

ReconciledBelow(site_files, home_id, has_pv, w) ==
    [raw_p1 |-> RawBelow(site_files, home_id, "p1", w),
     raw_pv |-> RawBelow(site_files, home_id, "pv", w),
     power |-> PowerBelow(site_files, home_id, has_pv, w)]

NoFiles == [path \in {} |-> <<>>]
EmptyStore == [raw_p1 |-> {}, raw_pv |-> {}, power |-> {}]
NoPass == [active |-> FALSE, n |-> 0, all_days |-> FALSE, start_date |-> NoTs,
           end_date |-> NoTs, now |-> 0, last_ts |-> <<>>, raised |-> FALSE]
NoRange == [start |-> NoTs, end |-> NoTs, classic |-> FALSE, write |-> FALSE]
Closed == [ssh |-> FALSE, sftp |-> FALSE]

\* watermarks the first site may start with: none, or a whole second of the
\* first day or of a later day
InitialWatermarks == {NoTs, Midnight(0) + SubSec, Midnight(SeptDays) + SubSec}

\* what the network does in a run: every site answers, the first site
\* refuses the connection, the first site refuses the sftp channel, or the
\* last site has no line in the routing table
Scenarios == {"ok", "refused", "nosftp", "unrouted"}

SyncConfig(n, layouts, watermarks, passes_done) ==
    /\ cpu_count \in 1..MaxCpu
    /\ \E pv1 \in BOOLEAN, layout \in layouts, w1 \in watermarks,
          scenario \in Scenarios :
        /\ tbl_access = [h \in Homes(n) |-> h = 1 /\ pv1]
        /\ hostnames = IF scenario = "unrouted" THEN Homes(n - 1) ELSE Homes(n)
        /\ net = [h \in Homes(n) |->
                    IF h = 1 /\ scenario \in {"refused", "nosftp"}
                    THEN scenario ELSE "ok"]
        /\ rpi = [h \in Homes(n) |->
                    IF h = 1 THEN SiteFiles(h, layout, pv1) ELSE NoFiles]
        /\ tbl_last_ts = [h \in Homes(n) |-> IF h = 1 THEN w1 ELSE NoTs]
        /\ store = [h \in Homes(n) |->
                      IF h = 1
                      THEN ReconciledBelow(SiteFiles(h, layout, pv1), h, pv1, w1)
                      ELSE EmptyStore]
        /\ spc = [h \in Homes(n) |-> "idle"]
        /\ dates = [h \in Homes(n) |-> <<>>]
        /\ rng = [h \in Homes(n) |-> NoRange]
        /\ sess = [h \in Homes(n) |-> Closed]
    /\ pass = [NoPass EXCEPT !.n = passes_done]
    /\ chunks = <<>>
    /\ worker = <<>>

\* a few sites, several passes
SyncInit == SyncConfig(NHomes, LayoutNames, InitialWatermarks, 0)

\* many sites, one pass
PoolInit == SyncConfig(MaxHomes, {"full"}, {NoTs}, MaxPasses - 1)

\* Pool(processes=min(mp.cpu_count(), 4)), sync_data line 381
processes == IF cpu_count < 4 THEN cpu_count ELSE 4

\* Pool.map: the iterable is cut into tasks of ceil(len / (4 * processes))
chunksize(len) ==
    IF len = 0 THEN 0
    ELSE (len + 4 * processes - 1) \div (4 * processes)

RECURSIVE Chop(_, _)
Chop(seq, size) ==
    IF seq = <<>> THEN <<>>
    ELSE IF Len(seq) <= size THEN <<seq>>
    ELSE <<SubSeq(seq, 1, size)>> \o Chop(SubSeq(seq, size + 1, Len(seq)), size)

\* times at which a pass may run, and the bounds a caller may give
NowChoices == {Midnight(d) + s * SubSec : d \in {SeptDays + 1, MaxSyncDay},
                                          s \in {0, 1}}
StartChoices == {NoTs, Midnight(SeptDays), Midnight(MaxSyncDay)}
EndChoices == {NoTs, Midnight(SeptDays + 1) + 1, Midnight(SeptDays + 2)}

\* sync_homewizard lines 397-401 and sync_data lines 365-382: read the
\* tables, fix `now`, build the arguments and hand them to the pool.
StartPass ==
    /\ ~pass.active
    /\ pass.n < MaxPasses
    /\ \E all_days \in BOOLEAN, start_date \in StartChoices,
          end_date \in EndChoices, now \in NowChoices :
        /\ now > pass.now \/ pass.n = 0
        /\ all_days => (start_date = NoTs /\ end_date = NoTs)
        /\ pass' = [active |-> TRUE, n |-> pass.n + 1, all_days |-> all_days,
                    start_date |-> start_date, end_date |-> end_date,
                    now |-> now,
                    last_ts |-> [h \in DOMAIN tbl_access |->
                                    IF tbl_last_ts[h] /= NoTs
                                    THEN tbl_last_ts[h] ELSE OLDEST_TS],
                    raised |-> FALSE]
    /\ LET args == [i \in 1..Cardinality(DOMAIN tbl_access) |-> i]
       IN  chunks' = Chop(args, chunksize(Len(args)))
    /\ worker' = [p \in 1..processes |-> <<>>]
    /\ spc' = [h \in DOMAIN spc |-> "queued"]
    /\ dates' = [h \in DOMAIN dates |-> <<>>]
    /\ rng' = [h \in DOMAIN rng |-> NoRange]
    /\ sess' = [h \in DOMAIN sess |-> Closed]
    /\ UNCHANGED <<net, cpu_count, tbl_access, hostnames, rpi, tbl_last_ts, store>>
    /\ UNCHANGED <<evars, dvars, ovars>>

\* a pool process takes the next task
TakeTask(p) ==
    /\ pass.active
    /\ worker[p] = <<>>
    /\ chunks /= <<>>
    /\ worker' = [worker EXCEPT ![p] = Head(chunks)]
    /\ chunks' = Tail(chunks)
    /\ UNCHANGED <<net, cpu_count, tbl_access, hostnames, rpi, tbl_last_ts, store,
                   pass, spc, dates, rng, sess>>
    /\ UNCHANGED <<evars, dvars, ovars>>

\* a listing that only sees the month folders the sync path names
get_available_dates_plain(site_files) ==
    {Midnight(d) : d \in {x \in SyncDays :
        \E k \in Kinds : \E h \in DOMAIN rpi :
            SyncPath(x, h, k) \in DOMAIN site_files}}

\* get_available_dates lines 230-244: the days of every csv file of the site
get_available_dates(site_files) ==
    {Midnight(d) : d \in {x \in SyncDays :
        \E k \in Kinds : \E h \in DOMAIN rpi :
            EdgePath(x, h, k) \in DOMAIN site_files}}

\* a range selection whose incremental mode always starts at the watermark
RangeSelect_nohorizon(site_files, all_days, start_date, end_date, last_ts, now) ==
    IF all_days
    THEN LET available_dates == get_available_dates(site_files)
         IN  IF available_dates = {} THEN NoRange
             ELSE [start |-> SetMin(available_dates),
                   end |-> SetMax(available_dates),
                   classic |-> FALSE, write |-> TRUE]
    ELSE IF start_date /= NoTs \/ end_date /= NoTs
    THEN [start |-> IF start_date /= NoTs THEN start_date
                    ELSE end_date - Timedelta_days(FROM_FIRST_TS),
          end |-> IF end_date /= NoTs THEN end_date ELSE now,
          classic |-> FALSE, write |-> TRUE]
    ELSE [start |-> last_ts, end |-> now, classic |-> TRUE, write |-> TRUE]

\* process_home lines 328-347 and sync_all_days lines 256-266: the range,
\* the filter flag, and whether sync_dates is entered at all.
RangeSelect(site_files, all_days, start_date, end_date, last_ts, now) ==
    IF all_days
    THEN LET available_dates == get_available_dates(site_files)
         IN  IF available_dates = {} THEN NoRange
             ELSE [start |-> SetMin(available_dates),
                   end |-> SetMax(available_dates),
                   classic |-> FALSE, write |-> TRUE]
    ELSE IF start_date /= NoTs \/ end_date /= NoTs
    THEN [start |-> IF start_date /= NoTs THEN start_date
                    ELSE end_date - Timedelta_days(FROM_FIRST_TS),
          end |-> IF end_date /= NoTs THEN end_date ELSE now,
          classic |-> FALSE, write |-> TRUE]
    ELSE [start |-> IF now - last_ts < Timedelta_days(FROM_FIRST_TS)
                    THEN last_ts
                    ELSE now - Timedelta_days(FROM_FIRST_TS),
          end |-> now, classic |-> TRUE, write |-> TRUE]

\* an exception leaves process_home: the rest of the task is not run
\* (Pool.map runs a task as list(map(process_home, chunk))) and map raises
\* in the parent once every task has ended.
TaskRaised(p) ==
    /\ worker' = [worker EXCEPT ![p] = <<>>]
    /\ pass' = [pass EXCEPT !.raised = TRUE]

TaskNext(p) ==
    /\ worker' = [worker EXCEPT ![p] = Tail(worker[p])]
    /\ UNCHANGED pass

\* process_home lines 316-326: the routing-table test and the connection.
\* ssh.connect or open_sftp may raise (utils.py lines 173-174), both before
\* the try block of line 175.
Connect(p) ==
    /\ pass.active
    /\ worker[p] /= <<>>
    /\ LET h == Head(worker[p])
       IN  /\ spc[h] = "queued"
           /\ IF h \notin hostnames
              THEN /\ spc' = [spc EXCEPT ![h] = "nohost"]
                   /\ TaskNext(p)
                   /\ UNCHANGED <<dates, rng, sess>>
              ELSE LET outcome == net[h] IN
                   IF outcome = "ok"
                   THEN LET r == RangeSelect(rpi[h], pass.all_days,
                                             pass.start_date, pass.end_date,
                                             pass.last_ts[h], pass.now)
                        IN  /\ spc' = [spc EXCEPT ![h] = "connected"]
                            /\ sess' = [sess EXCEPT ![h] =
                                           [ssh |-> TRUE, sftp |-> TRUE]]
                            /\ rng' = [rng EXCEPT ![h] = r]
                            /\ dates' = [dates EXCEPT ![h] =
                                   IF r.write THEN date_range(r.start, r.end)
                                   ELSE <<>>]
                            /\ UNCHANGED <<worker, pass>>
                   ELSE /\ spc' = [spc EXCEPT ![h] = "failed_connect"]
                        /\ sess' = [sess EXCEPT ![h] =
                               [ssh |-> outcome = "nosftp", sftp |-> FALSE]]
                        /\ TaskRaised(p)
                        /\ UNCHANGED <<dates, rng>>
    /\ UNCHANGED <<net, cpu_count, tbl_access, hostnames, rpi, tbl_last_ts, store,
                   chunks>>
    /\ UNCHANGED <<evars, dvars, ovars>>

\* one day of sync_dates (lines 283-303); an exception closes the sftp
\* channel and the ssh connection (utils.py lines 177-179) and leaves
\* process_home.
SyncDay(p) ==
    /\ pass.active
    /\ worker[p] /= <<>>
    /\ LET h == Head(worker[p])
       IN  /\ spc[h] = "connected"
           /\ dates[h] /= <<>>
           /\ LET res == sync_day(rpi[h], store[h], h, tbl_access[h],
                                  Head(dates[h]), rng[h].classic)
              IN  /\ store' = [store EXCEPT ![h] = res.st]
                  /\ IF res.raised
                     THEN /\ spc' = [spc EXCEPT ![h] =
                                 IF res.missing = "p1" THEN "failed_missing_p1"
                                 ELSE IF res.missing = "pv"
                                 THEN "failed_missing_pv"
                                 ELSE "failed_load"]
                          /\ sess' = [sess EXCEPT ![h] = Closed]
                          /\ TaskRaised(p)
                          /\ UNCHANGED dates
                     ELSE /\ dates' = [dates EXCEPT ![h] = Tail(dates[h])]
                          /\ UNCHANGED <<spc, sess, worker, pass>>
    /\ UNCHANGED <<net, cpu_count, tbl_access, hostnames, rpi, tbl_last_ts, chunks,
                   rng>>
    /\ UNCHANGED <<evars, dvars, ovars>>

\* sync_dates line 305 (check_last_ts), then the end of the with block
\* (utils.py lines 177-179). sync_all_days returns before sync_dates when the
\* site has no file (line 260).
AdvanceWatermark(p) ==
    /\ pass.active
    /\ worker[p] /= <<>>
    /\ LET h == Head(worker[p])
       IN  /\ spc[h] = "connected"
           /\ dates[h] = <<>>
           /\ tbl_last_ts' =
                 IF rng[h].write
                 THEN check_last_ts(tbl_last_ts, h, rng[h].end, pass.last_ts[h])
                 ELSE tbl_last_ts
           /\ spc' = [spc EXCEPT ![h] = "done"]
           /\ sess' = [sess EXCEPT ![h] = Closed]
    /\ TaskNext(p)
    /\ UNCHANGED <<net, cpu_count, tbl_access, hostnames, rpi, store, chunks, dates,
                   rng>>
    /\ UNCHANGED <<evars, dvars, ovars>>

\* pool.map returns or raises (sync_data line 382): every task has ended
EndPass ==
    /\ pass.active
    /\ chunks = <<>>
    /\ \A p \in DOMAIN worker : worker[p] = <<>>
    /\ pass' = [pass EXCEPT !.active = FALSE]
    /\ UNCHANGED <<net, cpu_count, tbl_access, hostnames, rpi, tbl_last_ts, store,
                   chunks, worker, spc, dates, rng, sess, net>>
    /\ UNCHANGED <<evars, dvars, ovars>>

\* the edge side at rest
EdgeOff ==
    /\ epc = "off"
    /\ HAS_PV = FALSE
    /\ next_sample_time = 0
    /\ first_sample_to_save = 0
    /\ p1_samples = {}
    /\ pv_samples = {}
    /\ work_queue = <<>>
    /\ running = NoSnapshot
    /\ files = <<>>
    /\ stop_cause = "none"
    /\ last_read = <<"none", "none">>
    /\ pv_read_start = NotStarted
    /\ captured = {}
    /\ nfinal = 0
    /\ restarts = 0

SyncNext ==
    \/ StartPass
    \/ \E p \in DOMAIN worker : TakeTask(p)
    \/ \E p \in DOMAIN worker : Connect(p)
    \/ \E p \in DOMAIN worker : SyncDay(p)
    \/ \E p \in DOMAIN worker : AdvanceWatermark(p)
    \/ EndPass

SyncStart == SyncInit /\ EdgeOff /\ DeriveOff /\ OverlapOff

PoolStart == PoolInit /\ EdgeOff /\ DeriveOff /\ OverlapOff

SpecSync == SyncStart /\ [][SyncNext]_vars

SpecPool == PoolStart /\ [][SyncNext]_vars

-----------------------------------------------------------------------------
(* The power derivation and the load of one day on given frames             *)
(* (sync_dates lines 286-303, batch_insert_query).                          *)

MaxRows == 4              \* rows of a frame handed to batch_insert_query

\* the csv rows of a day file with the measurement empty at the seconds nulls
FileRowsWithNulls(d, secs, nulls) ==
    [i \in 1..Len(FileRows(d, secs)) |->
        IF FileRows(d, secs)[i].ts \in {Midnight(d) + x * SubSec : x \in nulls}
        THEN [FileRows(d, secs)[i] EXCEPT !.w = <<>>]
        ELSE FileRows(d, secs)[i]]

\* sync_files lines 203-208: the frame of a file, filtered in classic mode
FrameOf(file, date, classic_sync) ==
    IF classic_sync
    THEN SelectSeq(read_csv(file), LAMBDA r : r.ts >= date)
    ELSE read_csv(file)

\* a primary frame of n rows, one per sub-second step
RowsFrame(d, n, nulls) ==
    [i \in 1..n |-> [idx |-> i - 1, ts |-> Midnight(d) + (i - 1),
                     w |-> IF i \in nulls THEN <<>> ELSE <<i>>]]

\* the frames of the two files of a day of a site, as sync_files returns them
DeriveInit ==
    /\ dpc = "derive"
    /\ \E has_pv \in BOOLEAN, classic_sync \in BOOLEAN,
          secs1 \in SUBSET (0..(SecondsPerSyncDay - 1)),
          secs2 \in SUBSET (0..(SecondsPerSyncDay - 1)) :
        \E nulls1 \in SUBSET secs1, nulls2 \in SUBSET secs2 :
            LET d == SeptDays
                date == Midnight(d) + SubSec
            IN  /\ has_pv \/ secs2 = {}
                /\ day_has_pv = has_pv
                /\ p1_df = FrameOf(FileRowsWithNulls(d, secs1, nulls1), date,
                                   classic_sync)
                /\ pv_df = FrameOf(FileRowsWithNulls(d, secs2, nulls2), date,
                                   classic_sync)
    /\ power_df = <<>>
    /\ loaded = <<>>

\* a frame of up to MaxRows rows of a site without production meter, ready
\* for batch_insert_query
LoadInit ==
    /\ dpc = "load"
    /\ day_has_pv = FALSE
    /\ \E n \in 0..MaxRows : \E nulls \in SUBSET (1..n) :
        /\ p1_df = RowsFrame(SeptDays, n, nulls)
        /\ power_df = power_frame(1, SeptDays, RowsFrame(SeptDays, n, nulls),
                                  FALSE, <<>>)
    /\ pv_df = <<>>
    /\ loaded = <<>>

\* sync_dates lines 286-300
Derive ==
    /\ dpc = "derive"
    /\ power_df' = power_frame(1, SeptDays, p1_df, day_has_pv, pv_df)
    /\ dpc' = "load"
    /\ UNCHANGED <<day_has_pv, p1_df, pv_df, loaded>>
    /\ UNCHANGED <<evars, svars, ovars>>

\* sync_dates line 303
Load ==
    /\ dpc = "load"
    /\ loaded' = batch_insert_query({}, power_df, PowerValues)
    /\ dpc' = "end"
    /\ UNCHANGED <<day_has_pv, p1_df, pv_df, power_df>>
    /\ UNCHANGED <<evars, svars, ovars>>

DeriveNext == Derive \/ Load

DeriveStart == (DeriveInit \/ LoadInit) /\ EdgeOff /\ SyncOff /\ OverlapOff

SpecDerive == DeriveStart /\ [][DeriveNext]_vars

-----------------------------------------------------------------------------
(* Two invocations of sync_homewizard over one site that overlap in time   *)
(* (for instance the scheduled pass and a pass started by hand).  Each      *)
(* reads the tables when it starts and works on the site later.             *)

NRuns == 2                \* invocations that overlap

IdleRun == [pc |-> "idle", all_days |-> FALSE, start_date |-> NoTs,
            end_date |-> NoTs, now |-> 0, last_ts |-> NoTs, end |-> NoTs,
            wrote |-> FALSE]

\* the loop of sync_dates (lines 282-303) over the days ds
RECURSIVE sync_dates_from(_, _, _, _, _, _)
sync_dates_from(site_files, st, home_id, has_pv, ds, classic_sync) ==
    IF ds = <<>> THEN [raised |-> FALSE, st |-> st]
    ELSE LET res == sync_day(site_files, st, home_id, has_pv, Head(ds),
                             classic_sync)
         IN  IF res.raised THEN [raised |-> TRUE, st |-> res.st]
             ELSE sync_dates_from(site_files, res.st, home_id, has_pv,
                                  Tail(ds), classic_sync)

\* one site, its day files holding one second a day
OverlapInit ==
    /\ SyncConfig(1, {"partial"}, InitialWatermarks, MaxPasses)
    /\ runs = [r \in 1..NRuns |-> IdleRun]

\* sync_homewizard lines 397-399 and sync_data lines 365-376: the invocation
\* reads the last_ts table and the clock
OverlapRead(r) ==
    /\ runs[r].pc = "idle"
    /\ \E all_days \in BOOLEAN, start_date \in StartChoices,
          end_date \in EndChoices, now \in NowChoices :
        /\ all_days => (start_date = NoTs /\ end_date = NoTs)
        /\ runs' = [runs EXCEPT ![r] =
               [pc |-> "read", all_days |-> all_days,
                start_date |-> start_date, end_date |-> end_date,
                now |-> now,
                last_ts |-> IF tbl_last_ts[1] /= NoTs
                            THEN tbl_last_ts[1] ELSE OLDEST_TS,
                end |-> NoTs, wrote |-> FALSE]]
    /\ UNCHANGED <<evars, svars, dvars>>

\* process_home of the site in the invocation r (lines 316-347): the days of
\* its range and, when none raised, check_last_ts with the watermark the
\* invocation read at its start
OverlapSync(r) ==
    /\ runs[r].pc = "read"
    /\ IF 1 \notin hostnames \/ net[1] /= "ok"
       THEN /\ runs' = [runs EXCEPT ![r].pc = "ended"]
            /\ UNCHANGED <<store, tbl_last_ts>>
       ELSE LET rg == RangeSelect(rpi[1], runs[r].all_days,
                                  runs[r].start_date, runs[r].end_date,
                                  runs[r].last_ts, runs[r].now)
                res == sync_dates_from(rpi[1], store[1], 1, tbl_access[1],
                                       IF rg.write
                                       THEN date_range(rg.start, rg.end)
                                       ELSE <<>>,
                                       rg.classic)
                writes == rg.write /\ ~res.raised
            IN  /\ store' = [store EXCEPT ![1] = res.st]
                /\ tbl_last_ts' =
                       IF writes
                       THEN check_last_ts(tbl_last_ts, 1, rg.end,
                                          runs[r].last_ts)
                       ELSE tbl_last_ts
                /\ runs' = [runs EXCEPT ![r].pc = "ended",
                                        ![r].end = rg.end,
                                        ![r].wrote = writes]
    /\ UNCHANGED <<net, cpu_count, tbl_access, hostnames, rpi, pass, chunks,
                   worker, spc, dates, rng, sess>>
    /\ UNCHANGED <<evars, dvars>>

OverlapNext == \E r \in 1..NRuns : OverlapRead(r) \/ OverlapSync(r)

OverlapStart == OverlapInit /\ EdgeOff /\ DeriveOff

SpecOverlap == OverlapStart /\ [][OverlapNext]_vars

-----------------------------------------------------------------------------
(* The command line of the sync (get_arguments, main).                      *)

\* a command line: --all given or not, the value of --start and of --end
\* (NoTs: the option is not given)
CommandLines ==
    [all : BOOLEAN, start : StartChoices, end : EndChoices]

Given(argv) ==
    (IF argv.all THEN {"all"} ELSE {})
    \cup (IF argv.start /= NoTs THEN {"start"} ELSE {})
    \cup (IF argv.end /= NoTs THEN {"end"} ELSE {})

ParserError == [error |-> TRUE]

\* get_arguments lines 415-440: the three options form one mutually
\* exclusive, required group; --start and --end default to the clock at the
\* time of the call, so the test of line 438 never fails
get_arguments(argv, clock) ==
    IF Cardinality(Given(argv)) /= 1 THEN ParserError
    ELSE [error |-> FALSE, all |-> argv.all,
          start |-> IF argv.start /= NoTs THEN argv.start ELSE clock,
          end |-> IF argv.end /= NoTs THEN argv.end ELSE clock]

\* main lines 454-459: the arguments of the call of sync_homewizard
main(args) ==
    IF args.all
    THEN [all_days |-> TRUE, start_date |-> NoTs, end_date |-> NoTs]
    ELSE [all_days |-> FALSE, start_date |-> args.start,
          end_date |-> args.end]

\* the pass ps is one that some command line starts (the clock of the
\* defaults is read within the second before the now of the pass)
FromMain(ps) ==
    \E argv \in CommandLines :
        \E clock \in (ps.now - SubSec + 1)..(ps.now + SubSec - 1) :
            /\ ~get_arguments(argv, clock).error
            /\ main(get_arguments(argv, clock)) =
                   [all_days |-> ps.all_days, start_date |-> ps.start_date,
                    end_date |-> ps.end_date]

-----------------------------------------------------------------------------
(* Properties of the sampler.                                               *)

RowsOf(file) == SelectSeq(file, LAMBDA l : ~l.hdr)

Written(k, t) ==
    \E i \in 1..Len(files[<<DayOfTick(t), k>>]) :
        t \in files[<<DayOfTick(t), k>>][i].ticks

\* C6: a failed sensor read (timeout, connection failure, non-2xx status or
\* malformed body) at a tick never ends the sampling loop: the loop is not
\* left by an exception at a tick one of whose reads failed.
C6_FailedReadKeepsLoop ==
    (ReadFailed(last_read[1]) \/ ReadFailed(last_read[2]))
        => stop_cause /= "exception"

\* C7: when the process has exited through its shutdown path, every reading
\* a sensor read returned is in its day file.
C7_CapturedIsWritten ==
    epc = "done" => \A c \in captured : Written(c[1], c[2])

\* C8: once the loop is left no tick is taken; the executor is drained before
\* the final flush; exactly one final flush runs, and the process exits only
\* after it.
C8_NoTickAfterStop ==
    epc \in {"shutdown", "final"}
        => /\ next_sample_time' = next_sample_time
           /\ p1_samples' = p1_samples
           /\ pv_samples' = pv_samples
           /\ captured' = captured
           /\ work_queue' = work_queue \/ work_queue' = Tail(work_queue)

C8_DrainThenFinalThenExit ==
    /\ (epc = "shutdown" /\ epc' /= "shutdown")
          => (epc' = "final" /\ work_queue = <<>> /\ running = NoSnapshot
              /\ nfinal = 0)
    /\ (epc = "final" /\ epc' /= "final")
          => (epc' \in {"done", "crashed"} /\ nfinal' = 1
              /\ work_queue' = <<>> /\ running' = NoSnapshot)
    /\ (epc' = "done" /\ epc /= "done") => epc = "final"
    /\ (epc = "done" /\ epc' = "done") => nfinal' = nfinal

C8_ShutdownOrder ==
    [][C8_NoTickAfterStop /\ C8_DrainThenFinalThenExit]_vars

\* a background flush wrote, the loop was interrupted with readings left, and
\* the final flush has run
C8_Witness ==
    /\ epc = "done"
    /\ restarts = 0
    /\ stop_cause = "interrupt"
    /\ p1_samples /= {}
    /\ \A t \in p1_samples : Written("p1", t)
    /\ \E c \in captured : c[2] \notin p1_samples /\ Written(c[1], c[2])

\* C9: in every day file the row timestamps are consecutive seconds: strictly
\* increasing with a step of exactly one second.
C9_ContiguousSeconds ==
    \A key \in DOMAIN files :
        LET rows == RowsOf(files[key])
        IN  \A i \in 1..(Len(rows) - 1) : rows[i + 1].sec = rows[i].sec + 1

\* C10: a day file starts with the header line and has no other header line,
\* and every step leaves the lines already in a file where they are.
C10_HeaderFirstOnly ==
    \A key \in DOMAIN files :
        \A i \in 1..Len(files[key]) : files[key][i].hdr <=> (i = 1)

C10_AppendOnly ==
    \A key \in DOMAIN files :
        /\ Len(files'[key]) >= Len(files[key])
        /\ SubSeq(files'[key], 1, Len(files[key])) = files[key]

-----------------------------------------------------------------------------
(* Properties of the sync pass.                                             *)

Max2(a, b) == IF a >= b THEN a ELSE b

\* the watermark a pass is given for a site that has no row (sync_data 375)
Stored(h) == IF tbl_last_ts[h] = NoTs THEN OLDEST_TS ELSE tbl_last_ts[h]

Advances(h) == spc[h] = "connected" /\ spc'[h] = "done" /\ rng[h].write

\* C1: no step of a pass, in any mode and also in a pass that aborts, lowers
\* the watermark stored for a site (a site without a row counts as below
\* every timestamp).
C1_WatermarkNeverDecreases ==
    [][\A h \in DOMAIN tbl_last_ts : tbl_last_ts'[h] >= tbl_last_ts[h]]_vars

\* a pass reached the watermark step with a range end below the stored
\* watermark, and the watermark is still above it
C1_Witness ==
    \E h \in DOMAIN spc :
        /\ spc[h] = "done"
        /\ rng[h].write
        /\ tbl_last_ts[h] /= NoTs
        /\ rng[h].end < tbl_last_ts[h]

\* C2: every row of a site's day files with a timestamp below the site's
\* stored watermark is in the raw table of its kind, and for the primary
\* meter also in the power table.
C2_BelowWatermarkIsStored ==
    \A h \in DOMAIN rpi : \A d \in SyncDays : \A k \in Kinds :
        EdgePath(d, h, k) \in DOMAIN rpi[h] =>
            \A i \in 1..Len(rpi[h][EdgePath(d, h, k)]) :
                LET ts == rpi[h][EdgePath(d, h, k)][i].ts
                    raw == IF k = "p1" THEN store[h].raw_p1
                           ELSE store[h].raw_pv
                IN  ts < tbl_last_ts[h] =>
                        /\ \E r \in raw : r.ts = ts
                        /\ k = "p1" => \E r \in store[h].power : r.ts = ts

\* C3: a selected day whose primary file does not exist at the site never
\* ends the site's pass in Failed.
C3_MissingDayIsSkipped ==
    \A h \in DOMAIN spc :
        ~(/\ spc[h] = "failed_missing_p1"
          /\ EdgePath(DayOf(Head(dates[h])), h, "p1") \notin DOMAIN rpi[h])

\* C4: when the pass has ended and the connection to one site failed, every
\* other site of the pass has been taken up by process_home (the least the
\* claim asks of the other sites).
C4_OtherSitesStillSynced ==
    (~pass.active /\ pass.n = MaxPasses
     /\ \E a \in DOMAIN spc : spc[a] = "failed_connect")
        => \A b \in DOMAIN spc : spc[b] /= "queued"

\* C5 as claimed: the watermark step stores max(w, e).
C5_AdvanceStoresMax ==
    [][\A h \in DOMAIN spc :
          Advances(h) => tbl_last_ts'[h] = Max2(Stored(h), rng[h].end)]_vars

\* C5 as amended: the watermark step stores max(w, e floored to the second).
C5_AdvanceStoresMaxFloored ==
    [][\A h \in DOMAIN spc :
          Advances(h)
              => tbl_last_ts'[h] = Max2(Stored(h), floor_s(rng[h].end))]_vars

\* a range end with a sub-second part was stored, floored
C5_Witness ==
    \E h \in DOMAIN spc :
        /\ spc[h] = "done"
        /\ rng[h].write
        /\ rng[h].end % SubSec /= 0
        /\ tbl_last_ts[h] = floor_s(rng[h].end)

Connects(h) == spc[h] = "queued" /\ spc'[h] = "connected"

\* C11: in incremental mode with range start s, a row of a fetched primary
\* file is in the frame handed to the loader if and only if its timestamp is
\* not before s, on the first selected day and on every later selected day.
C11_LoadedIffNotBeforeStart ==
    \A h \in DOMAIN spc :
        (spc[h] = "connected" /\ rng[h].classic) =>
            \A i \in DOMAIN dates[h] :
                LET date == dates[h][i]
                    path == SyncPath(DayOf(date), h, "p1")
                IN  path \in DOMAIN rpi[h] =>
                        LET df == sync_files(rpi[h], store[h].raw_p1, h, date,
                                             "p1", TRUE).df
                        IN  \A j \in DOMAIN rpi[h][path] :
                                (\E k \in DOMAIN df :
                                    df[k].ts = rpi[h][path][j].ts)
                                    <=> rpi[h][path][j].ts >= rng[h].start

\* C12: in incremental mode every calendar day from the day of the range
\* start to the day of now is selected when the site's pass selects its days.
C12_EveryDayToNowSelected ==
    [][\A h \in DOMAIN spc :
          (Connects(h) /\ rng'[h].classic) =>
              \A d \in DayOf(rng'[h].start)..DayOf(pass.now) :
                  \E i \in DOMAIN dates'[h] : DayOf(dates'[h][i]) = d]_vars

\* C13: in incremental mode the selected range is
\* [max(watermark, now - FROM_FIRST_TS days), now], the watermark of a site
\* without a row being OLDEST_TS.
C13_RangeIsMaxOfWatermarkAndHorizon ==
    [][\A h \in DOMAIN spc :
          (Connects(h) /\ rng'[h].classic) =>
              /\ rng'[h].start =
                     Max2(Stored(h), pass.now - Timedelta_days(FROM_FIRST_TS))
              /\ rng'[h].end = pass.now]_vars

\* an incremental pass whose range starts at a stored watermark that lies
\* within the horizon
C13_Witness ==
    \E h \in DOMAIN spc :
        /\ spc[h] = "connected"
        /\ rng[h].classic
        /\ tbl_last_ts[h] /= NoTs
        /\ rng[h].start = tbl_last_ts[h]
        /\ rng[h].start > pass.now - Timedelta_days(FROM_FIRST_TS)

\* the dates of its range that the pass of site h has started on
ReachedDates(h) ==
    LET all == date_range(rng[h].start, rng[h].end)
        n == IF spc[h] = "done" THEN Len(all)
             ELSE Len(all) - Len(dates[h]) + 1
    IN  {all[i] : i \in 1..n}

Ended(h) ==
    spc[h] \in {"done", "failed_load", "failed_missing_p1",
                "failed_missing_pv"}

\* C14: after a pass has run over a day of which the store already held rows
\* from an earlier pass, the store holds exactly one row for every
\* (site, day, second) of the rows the passes had to load for that day.
C14_OneRowPerSecondAfterReplay ==
    \A h \in DOMAIN spc :
        (Ended(h) /\ rng[h].write) =>
            \A date \in ReachedDates(h) :
                LET d == DayOf(date)
                    path == SyncPath(d, h, "p1")
                IN  (/\ path \in DOMAIN rpi[h]
                     /\ \E r \in store[h].raw_p1 : r.day = DayString(d)) =>
                        LET df == FrameOf(rpi[h][path], date, rng[h].classic)
                        IN  \A k \in DOMAIN df :
                                Cardinality({r \in store[h].raw_p1 :
                                    /\ r.home_id = h
                                    /\ r.day = DayString(d)
                                    /\ r.ts = df[k].ts}) = 1

DayStep(h) ==
    /\ spc[h] = "connected"
    /\ dates[h] /= <<>>
    /\ dates'[h] /= dates[h] \/ spc'[h] /= "connected"

\* C17: for a site without production meter, the work on a day whose primary
\* file exists leaves in the power table exactly one record per row of the
\* primary frame, with production 0 and net = consumption.
C17_NoPvDayYieldsPowerRecords ==
    [][\A h \in DOMAIN spc :
          (DayStep(h) /\ ~tbl_access[h]
           /\ SyncPath(DayOf(Head(dates[h])), h, "p1") \in DOMAIN rpi[h]) =>
              LET date == Head(dates[h])
                  df == FrameOf(rpi[h][SyncPath(DayOf(date), h, "p1")], date,
                                rng[h].classic)
              IN  \A k \in DOMAIN df :
                      /\ Cardinality({r \in store'[h].power :
                             /\ r.day = DayString(DayOf(date))
                             /\ r.ts = df[k].ts}) = 1
                      /\ \A r \in store'[h].power :
                             (r.day = DayString(DayOf(date))
                              /\ r.ts = df[k].ts) =>
                                 /\ r.p_prod = <<0>>
                                 /\ r.p_cons = df[k].w
                                 /\ r.p_tot = df[k].w]_vars

RECURSIVE Flatten(_)
Flatten(seqs) ==
    IF seqs = <<>> THEN <<>> ELSE Head(seqs) \o Flatten(Tail(seqs))

\* C18: a frame of M rows is executed as ceil(M / INSERTS_PER_BATCH)
\* batches, each of at most INSERTS_PER_BATCH statements and only the last
\* one smaller, that together hold every row once, in input order.
C18_BatchesAreCeil ==
    dpc = "end" =>
        LET M == Len(power_df)
            N == INSERTS_PER_BATCH
            B == loaded.batches
        IN  /\ Len(B) = (M + N - 1) \div N
            /\ \A k \in DOMAIN B : Len(B[k]) <= N
            /\ \A k \in DOMAIN B : k < Len(B) => Len(B[k]) = N
            /\ Flatten(B) = power_df

\* the tick loop can take its next step whatever the executor is doing
C19_TickNeverWaits ==
    (running /= NoSnapshot \/ work_queue /= <<>>) =>
        /\ (epc = "sample" /\ next_sample_time <= MaxTick) => ENABLED Sample
        /\ epc = "check" => ENABLED Check
        /\ epc = "reset" => ENABLED Reset
        /\ (epc = "advance" /\ next_sample_time < MaxTick) => ENABLED Advance

\* a flush starts only when none is running and it is the oldest request;
\* requests join the queue at its end; the final flush of the main thread
\* runs only when no background flush is running or waiting
C19_FlushOrder ==
    /\ (running' /= running /\ running' /= NoSnapshot) =>
           /\ running = NoSnapshot
           /\ work_queue /= <<>>
           /\ running' = Head(work_queue)
           /\ work_queue' = Tail(work_queue)
    /\ work_queue' /= work_queue =>
           \/ work_queue /= <<>> /\ work_queue' = Tail(work_queue)
           \/ \E x \in {[p1 |-> p1_samples, pv |-> pv_samples]} :
                  work_queue' = Append(work_queue, x)
    /\ nfinal' /= nfinal => (running = NoSnapshot /\ work_queue = <<>>)

\* C19: at most one flush writes at any moment, a flush requested while
\* another is running starts only after that one has completed and in
\* request order, and the tick loop never waits for a flush.
C19_OneFlushAtATime == [](C19_TickNeverWaits) /\ [][C19_FlushOrder]_vars

\* a flush is running, another one is waiting, and the loop has gone on
C19_Witness ==
    /\ running /= NoSnapshot
    /\ work_queue /= <<>>
    /\ epc = "advance"

\* C20: when the worker has finished with a site, the ssh connection and the
\* sftp channel opened for the site are closed.
C20_SessionsClosed ==
    \A h \in DOMAIN spc :
        (Ended(h) \/ spc[h] \in {"failed_connect", "nohost"})
            => sess[h] = Closed

\* the days for which the site h has a day file of either kind
DaysWithFile(h) ==
    {d \in SyncDays : \E k \in Kinds : EdgePath(d, h, k) \in DOMAIN rpi[h]}

\* C21: in full-resync mode the range of a site runs from the earliest to the
\* latest day that has a day file at the site and rows are not filtered; a
\* site without day files fetches nothing, loads nothing and keeps its
\* watermark.
C21_FullResyncRange ==
    [][\A h \in DOMAIN spc :
          pass.active /\ pass.all_days =>
              /\ (Connects(h) /\ DaysWithFile(h) /= {}) =>
                     /\ rng'[h].start = Midnight(SetMin(DaysWithFile(h)))
                     /\ rng'[h].end = Midnight(SetMax(DaysWithFile(h)))
                     /\ ~rng'[h].classic
                     /\ dates'[h] =
                            [i \in 1..(SetMax(DaysWithFile(h))
                                       - SetMin(DaysWithFile(h)) + 1) |->
                                Midnight(SetMin(DaysWithFile(h)) + i - 1)]
              /\ (Connects(h) /\ DaysWithFile(h) = {}) => dates'[h] = <<>>
              /\ DaysWithFile(h) = {} =>
                     /\ tbl_last_ts'[h] = tbl_last_ts[h]
                     /\ store'[h] = store[h]]_vars

\* a full-resync pass in which one site has its range of several days and a
\* site without day files has finished
C21_Witness ==
    /\ pass.all_days
    /\ \E h \in DOMAIN spc :
           /\ spc[h] = "connected"
           /\ rng[h].write
           /\ rng[h].start < rng[h].end
    /\ \E h \in DOMAIN spc :
           /\ spc[h] = "done"
           /\ DaysWithFile(h) = {}

\* C22: a site without a routing-table entry is skipped (no session, no row
\* loaded, watermark as before), and when the pass has ended every other
\* site of the pass has been taken up by process_home.
C22_UnroutedSkippedOthersProcessed ==
    /\ \A a \in DOMAIN spc :
           spc[a] = "nohost" =>
               /\ sess[a] = Closed
               /\ dates[a] = <<>>
               /\ Stored(a) = pass.last_ts[a]
    /\ (~pass.active /\ pass.n = MaxPasses
        /\ \E a \in DOMAIN spc : spc[a] = "nohost")
           => \A b \in DOMAIN spc : spc[b] /= "queued"

\* C23: a periodic flush hands over the buffers as they are and the reset
\* empties them, and the final flush hands over no reading that a background
\* flush has already written, wherever the interrupt arrived.
C23_EachReadingInOneSnapshot ==
    [][/\ (epc = "check" /\ epc' = "reset") =>
              work_queue' = Append(work_queue,
                                   [p1 |-> p1_samples, pv |-> pv_samples])
       /\ (epc = "reset" /\ epc' = "advance") =>
              (p1_samples' = {} /\ pv_samples' = {})
       /\ (epc = "final" /\ epc' = "done") =>
              \A t \in p1_samples : ~Written("p1", t)]_vars

\* C24: on a production-capable site a tick whose production read succeeds
\* adds the reading to the production buffer and the loop goes on to its
\* flush test.
C24_ProductionReadingBuffered ==
    [][(epc = "sample" /\ epc' /= "sample" /\ stop_cause' /= "interrupt"
        /\ HAS_PV /\ last_read'[2] = "ok")
          => /\ next_sample_time \in pv_samples'
             /\ epc' = "check"]_vars

\* the rows a step appends to the day file of key
Appended(key) ==
    RowsOf(SubSeq(files'[key], Len(files[key]) + 1, Len(files'[key])))

\* the readings of kind k and day d in the snapshot a step writes
Group(snapshot, key) ==
    {t \in (IF key[2] = "p1" THEN snapshot.p1 ELSE snapshot.pv) :
        t >= 0 /\ DayOfTick(t) = key[1]}

\* the rows the claim asks for: one per whole second from the second of the
\* earliest reading to the second of the latest, each holding the readings
\* whose timestamp falls in that second (none: a null row; else their mean)
OneRowPerSecond(rows, grp) ==
    /\ Len(rows) = SecOf(SetMax(grp)) - SecOf(SetMin(grp)) + 1
    /\ \A i \in 1..Len(rows) :
           /\ rows[i].sec = SecOf(SetMin(grp)) + i - 1
           /\ rows[i].ticks =
                  {t \in grp : t \div TicksPerSecond = rows[i].sec}

\* C25: for each flush window and each calendar day in it, the rows written
\* are exactly one per whole second from the earliest to the latest reading
\* of that day in the window, a row being null iff no reading falls in its
\* second and the mean of the readings of the second otherwise.
C25_OneRowPerSecondOfWindow ==
    [][\A key \in DOMAIN files :
          /\ (running /= NoSnapshot /\ running' = NoSnapshot
              /\ files' /= files /\ Group(running, key) /= {})
                 => OneRowPerSecond(Appended(key), Group(running, key))
          /\ (epc = "final" /\ epc' = "done"
              /\ Group([p1 |-> p1_samples, pv |-> pv_samples], key) /= {})
                 => OneRowPerSecond(Appended(key),
                        Group([p1 |-> p1_samples, pv |-> pv_samples], key))
      ]_vars

\* a day file with a null row between two rows that hold readings
C25_Witness ==
    \E key \in DOMAIN files :
        \E i \in 2..(Len(files[key]) - 1) :
            /\ ~files[key][i].hdr
            /\ files[key][i].ticks = {}
            /\ files[key][i - 1].ticks /= {}
            /\ files[key][i + 1].ticks /= {}
            /\ files[key][i + 1].sec = files[key][i].sec + 1

\* C26: at a tick of a production-capable site the production read is
\* started together with the primary read: a primary read that runs into
\* its timeout does not delay the start of the production read.
C26_ReadsStartTogether ==
    [][(epc = "sample" /\ HAS_PV /\ pv_read_start' /= NotStarted
        /\ last_read'[1] /= "none")
          => pv_read_start' = 0]_vars

\* C27: within the pass of one site the selected days are taken one at a
\* time in ascending order, and the watermark of the site is written only
\* after the work on the last selected day; steps of different sites may
\* interleave.
C27_DaysAscendingThenWatermark ==
    [][\A h \in DOMAIN spc :
          /\ Connects(h) =>
                 \A i \in 1..(Len(dates'[h]) - 1) :
                     dates'[h][i] < dates'[h][i + 1]
          /\ (spc[h] = "connected" /\ dates'[h] /= dates[h]) =>
                 dates'[h] = Tail(dates[h])
          /\ tbl_last_ts'[h] /= tbl_last_ts[h] =>
                 /\ spc[h] = "connected"
                 /\ dates[h] = <<>>
                 /\ spc'[h] = "done"]_vars

\* a site has finished its first day and has a later day to do while another
\* site is in its pass too
C27_Witness ==
    \E h \in DOMAIN spc : \E g \in DOMAIN spc :
        /\ g /= h
        /\ spc[h] = "connected"
        /\ spc[g] = "connected"
        /\ rng[h].write
        /\ dates[h] /= <<>>
        /\ Len(dates[h]) < Len(date_range(rng[h].start, rng[h].end))

\* C28: when the sync works on a day for which the edge has created the
\* primary day file, the path it checks and fetches is the path of that
\* file, single-digit months included, so the file is found.
C28_SyncPathIsEdgePath ==
    [][\A h \in DOMAIN spc :
          (DayStep(h)
           /\ EdgePath(DayOf(Head(dates[h])), h, "p1") \in DOMAIN rpi[h])
              => /\ SyncPath(DayOf(Head(dates[h])), h, "p1")
                        = EdgePath(DayOf(Head(dates[h])), h, "p1")
                 /\ spc'[h] /= "failed_missing_p1"]_vars

Aborted(h) ==
    spc[h] \in {"failed_load", "failed_missing_p1", "failed_missing_pv"}

C30_OverlapKeepsLatest ==
    [][/\ tbl_last_ts'[1] >= tbl_last_ts[1]
       /\ (\A r \in 1..NRuns : runs'[r].wrote) =>
              \A r \in 1..NRuns :
                  /\ tbl_last_ts'[1] >= floor_s(runs'[r].end)
                  /\ tbl_last_ts'[1] >= runs'[r].last_ts]_vars

\* C31: at whatever second of the minute the sampler is started, the anchor
\* tick is set to a whole second, the first flush deadline to one flush
\* period after it, and the tick loop is entered.
C31_StartEntersLoop ==
    [][(epc = "start" /\ epc' /= "start")
          => /\ epc' = "sample"
             /\ next_sample_time' % TicksPerSecond = 0
             /\ first_sample_to_save' = next_sample_time' + FlushTicks]_vars

\* C32: in every mode the watermark a pass stores is not later than the
\* 'now' of the pass, so that the range of the next incremental pass of the
\* site (from the watermark to its own now) is not empty.
C32_WatermarkNotAfterNow ==
    [][\A h \in DOMAIN spc :
          /\ (Advances(h) /\ tbl_last_ts'[h] /= tbl_last_ts[h])
                 => tbl_last_ts'[h] <= pass.now
          /\ (Connects(h) /\ rng'[h].classic) => dates'[h] /= <<>>]_vars

\* C33: a pass given neither the full-resync choice nor a start or end bound
\* runs from the watermark (or the horizon) with the filter on, and such a
\* pass is one the command-line entry point starts.
C33_IncrementalIsDefault ==
    (pass.active /\ ~pass.all_days /\ pass.start_date = NoTs
     /\ pass.end_date = NoTs)
        => /\ \A h \in DOMAIN spc :
                  spc[h] = "connected" =>
                      /\ rng[h].classic
                      /\ rng[h].start \in {pass.last_ts[h],
                             pass.now - Timedelta_days(FROM_FIRST_TS)}
           /\ FromMain(pass)

====
